---- MODULE Spec2Model ----
(***************************************************************************)
(* Model of libil2cpp's typed views over il2cpp runtime metadata:          *)
(* Il2CppClass (method / field resolution, hierarchy traversal, invoke by  *)
(* name, raw accessors) and FieldInfo (typed load / store).                *)
(*                                                                         *)
(* The runtime metadata (parent links, method and field arrays) is owned   *)
(* by the il2cpp runtime and never changes after load: it is chosen in     *)
(* Init and left alone by every action.                                    *)
(*                                                                         *)
(* Spec          method resolution and invoke by name, on the method       *)
(*               arrays of an inheritance chain;                           *)
(* ViewSpec      hierarchy traversal, field resolution, typed field access *)
(*               and the raw accessors, on well-formed metadata;           *)
(* UncheckedSpec the lookup by name and parameter count, on method records *)
(*               that also differ in their number of parameters;           *)
(* MalformedSpec the actions of ViewSpec on metadata whose parent links    *)
(*               run into a cycle or that has a null pointer.              *)
(***************************************************************************)
EXTENDS Integers, Sequences, FiniteSets, TLC

VARIABLES
    parent,     \* raw::Il2CppClass.parent of every class (NoClass = null)
    methods,    \* raw::Il2CppClass.methods / method_count of every class
    fields,     \* raw::Il2CppClass.fields / field_count of every class
    raw,        \* the name and array pointers of every class record
    object,     \* the field values of the live managed object
    call,       \* the host call made last
    ret,        \* what that call returned (or that it panicked)
    native,     \* the raw primitives that call reached, in order
    trav,       \* the Hierarchy iterator the host holds, with what it yielded
    search      \* the Hierarchy iterator inside a running find_field_unchecked

vars == <<parent, methods, fields, raw, object, call, ret, native, trav, search>>

\* The runtime-owned metadata.
metadata == <<parent, methods, fields, raw>>

----------------------------------------------------------------------------
(* Bounds *)

NumClasses == 3
NumMethods == 3
NumFields == 3

\* Classes a traversal is followed for: enough to walk every class and to
\* come round a cycle of the parent links.
MaxYield == NumClasses + 2

----------------------------------------------------------------------------
(* Runtime metadata *)

Classes == 1..NumClasses

\* A null class pointer: Il2CppClass::wrap_ptr gives None for it.
NoClass == 0

MethodIds == 1..NumMethods

\* Names a lookup can ask for and a member can carry.
Names == {"Add", "Sub"}

\* The method records the runtime may have loaded: name, static flag,
\* parameter types, return type.
MethodKinds ==
    { [name |-> "Add", is_static |-> FALSE, parameters |-> <<"int">>,  return_ty |-> "int"],
      [name |-> "Add", is_static |-> TRUE,  parameters |-> <<"int">>,  return_ty |-> "int"],
      [name |-> "Add", is_static |-> FALSE, parameters |-> <<"bool">>, return_ty |-> "int"],
      [name |-> "Add", is_static |-> TRUE,  parameters |-> <<"int">>,  return_ty |-> "void"],
      [name |-> "Sub", is_static |-> FALSE, parameters |-> <<"int">>,  return_ty |-> "int"] }

\* A MethodInfo: the record's address (id), its declaring class and its kind.
MethodInfo(i, c, k) ==
    [id |-> i, class |-> c, name |-> k.name, is_static |-> k.is_static,
     parameters |-> k.parameters, return_ty |-> k.return_ty]

\* The method records are laid out class by class: the ids declared by one
\* class are contiguous and a class's array lists them in address order.
RECURSIVE MethodArray(_, _, _, _)
MethodArray(c, mc, mk, i) ==
    IF i > NumMethods THEN <<>>
    ELSE IF mc[i] = c THEN <<MethodInfo(i, c, mk[i])>> \o MethodArray(c, mc, mk, i + 1)
    ELSE MethodArray(c, mc, mk, i + 1)

\* A raw array field: the pointer is null when the class declares nothing.
RawArray(items) == [null |-> items = <<>>, items |-> items]

EmptyArrays == [c \in Classes |-> RawArray(<<>>)]

\* A pointer to a C string.
CStr(str) == [null |-> FALSE, str |-> str]
NullStr == [null |-> TRUE, str |-> ""]

FieldIds == 1..NumFields

\* The field records the runtime may have loaded: name and type.
FieldKinds == { [name |-> "x", ty |-> "int"], [name |-> "y", ty |-> "bool"] }

\* A FieldInfo: the record's address (id), its declaring class, the pointer
\* to its name and its type.
FieldInfo(i, c, k) == [id |-> i, class |-> c, name |-> CStr(k.name), ty |-> k.ty]

\* The field records are laid out class by class, like the method records.
RECURSIVE FieldArray(_, _, _, _)
FieldArray(c, fc, fk, i) ==
    IF i > NumFields THEN <<>>
    ELSE IF fc[i] = c THEN <<FieldInfo(i, c, fk[i])>> \o FieldArray(c, fc, fk, i + 1)
    ELSE FieldArray(c, fc, fk, i + 1)

\* The other pointers of a class record, all set.
ValidRecord ==
    [name |-> CStr("Foo"), namespaze |-> CStr("Bar"),
     implementedInterfaces |-> [null |-> FALSE, items |-> <<>>],
     nestedTypes |-> [null |-> FALSE, items |-> <<>>]]

ValidRecords == [c \in Classes |-> ValidRecord]

\* The single inheritance chain 1 -> 2 -> ... -> NumClasses -> null.
ChainParent == [c \in Classes |-> IF c = NumClasses THEN NoClass ELSE c + 1]

----------------------------------------------------------------------------
(* Results *)

None == [tag |-> "None", val |-> <<>>]
Some(x) == [tag |-> "Some", val |-> <<x>>]
Panic == [tag |-> "panic", val |-> <<>>]

\* Iterator::next on what is left of a filtered slice.
IterNext(s) == IF s = <<>> THEN None ELSE Some(Head(s))
IterRest(s) == IF s = <<>> THEN <<>> ELSE Tail(s)

----------------------------------------------------------------------------
(* Il2CppClass accessors *)

\* Mutant of ClassName: the pointer is not checked.
ClassNameUnchecked(c) == Some(raw[c].name.str)

\* Il2CppClass::name: the assertion fails on a null pointer.
ClassName(c) == IF ~raw[c].name.null THEN Some(raw[c].name.str) ELSE Panic

\* Il2CppClass::namespace: the assertion fails on a null pointer.
ClassNamespace(c) ==
    IF ~raw[c].namespaze.null THEN Some(raw[c].namespaze.str) ELSE Panic

\* Il2CppClass::implemented_interfaces: the slice, or the empty slice for a
\* null pointer.
ImplementedInterfaces(c) ==
    IF ~raw[c].implementedInterfaces.null THEN raw[c].implementedInterfaces.items ELSE <<>>

\* Il2CppClass::nested_types: the slice is built from the pointer unchecked.
\* From a null pointer that is undefined behaviour: the call may abort, give
\* an empty slice, or give a slice over whatever lies at address zero.
NestedTypesOutcomes(c) ==
    IF ~raw[c].nestedTypes.null
    THEN { Some(raw[c].nestedTypes.items) }
    ELSE { Panic, Some(<<>>), Some(<<NoClass>>) }

\* Il2CppClass::methods: the slice, or the empty slice for a null pointer.
Methods(c) == IF ~methods[c].null THEN methods[c].items ELSE <<>>

\* Il2CppClass::fields: the slice, or the empty slice for a null pointer.
Fields(c) == IF ~fields[c].null THEN fields[c].items ELSE <<>>

\* Il2CppClass::parent
Parent(c) == parent[c]

\* Mutant of Hierarchy: the traversal starts on the parent.
HierarchyFromParent(c) == [current |-> Parent(c)]

\* Il2CppClass::hierarchy: a fresh iterator positioned on the class itself.
Hierarchy(c) == [current |-> c]

\* Mutant of HierarchyNext: the iterator is not advanced.
HierarchyNextStuck(h) ==
    IF h.current # NoClass
    THEN [item |-> h.current, iter |-> h]
    ELSE [item |-> NoClass, iter |-> h]

\* Hierarchy::next: the item yielded and the iterator afterwards.
HierarchyNext(h) ==
    IF h.current # NoClass
    THEN [item |-> h.current, iter |-> [current |-> Parent(h.current)]]
    ELSE [item |-> NoClass, iter |-> h]

----------------------------------------------------------------------------
(* Type capability predicates.  Host types: "i32", "bool", "unit". *)

\* The runtime type a host type stands for.
HostKind(h) ==
    CASE h = "i32" -> "int"
      [] h = "bool" -> "bool"
      [] h = "unit" -> "void"

\* Argument::matches / Return::matches of the caller side.
TypeMatches(h, ty) == HostKind(h) = ty

\* Arguments::matches: same arity, every argument matches its parameter.
ArgumentsMatch(A, params) ==
    /\ Len(A) = Len(params)
    /\ \A i \in 1..Len(A) : TypeMatches(A[i], params[i])

\* Return::matches of the caller side.
ReturnMatches(R, ty) == TypeMatches(R, ty)

\* Type::matches_this_parameter of a managed reference type: the method is an
\* instance method (the host type here is the root object type, with which
\* every declaring class is compatible).
MatchesThisParameter(mi) == ~mi.is_static

\* ThisParameter::matches: () takes static methods only; a reference to a
\* managed object takes instance methods only.
ThisMatches(T, mi) ==
    IF T = "unit" THEN mi.is_static ELSE MatchesThisParameter(mi)

\* Parameter::matches of the callee side.
ParameterMatches(P, ty) == HostKind(P) = ty

\* Parameters::matches: () takes no parameter, a single Parameter takes one.
ParametersMatch(P, params) ==
    IF P = <<>> THEN params = <<>>
    ELSE Len(params) = 1 /\ ParameterMatches(P[1], params[1])

\* Return::matches of the callee side: () is the runtime's void.
CalleeReturnMatches(R, ty) ==
    IF R = "unit" THEN ty = "void" ELSE HostKind(R) = ty

----------------------------------------------------------------------------
(* Overload resolution *)

\* Mutant of FindMethodFilter: the signature is not checked.
FindMethodFilterNameOnly(mi, name, A, R) == mi.name = name

\* The filter of find_method.
FindMethodFilter(mi, name, A, R) ==
    mi.name = name /\ ArgumentsMatch(A, mi.parameters) /\ ReturnMatches(R, mi.return_ty)

\* Mutant of FindMethodLoop: an ambiguous level is skipped like an empty one.
RECURSIVE FindMethodLoopSkipAmbiguous(_, _, _, _)
FindMethodLoopSkipAmbiguous(h, name, A, R) ==
    LET n == HierarchyNext(h) IN
    IF n.item = NoClass THEN None
    ELSE LET matching == SelectSeq(Methods(n.item),
                                   LAMBDA mi : FindMethodFilter(mi, name, A, R))
         IN  IF Len(matching) = 1 THEN Some(matching[1])
             ELSE FindMethodLoopSkipAmbiguous(n.iter, name, A, R)

\* The loop of find_method over what the hierarchy iterator h still yields.
RECURSIVE FindMethodLoop(_, _, _, _)
FindMethodLoop(h, name, A, R) ==
    LET n == HierarchyNext(h) IN
    IF n.item = NoClass THEN None
    ELSE LET matching == SelectSeq(Methods(n.item),
                                   LAMBDA mi : FindMethodFilter(mi, name, A, R))
             first == IterNext(matching)
             second == IterNext(IterRest(matching))
         IN  IF first.tag = "None" THEN FindMethodLoop(n.iter, name, A, R)
             ELSE IF second.tag = "None" THEN first
             ELSE None

\* Il2CppClass::find_method
FindMethod(c, name, A, R) == FindMethodLoop(Hierarchy(c), name, A, R)

\* Mutant of FindMethodStaticFilter: the static flag is not checked.
FindMethodStaticFilterAnyFlag(mi, name, A, R) ==
    /\ mi.name = name
    /\ ArgumentsMatch(A, mi.parameters)
    /\ ReturnMatches(R, mi.return_ty)

\* The filter of find_method_static.
FindMethodStaticFilter(mi, name, A, R) ==
    /\ mi.name = name
    /\ mi.is_static
    /\ ArgumentsMatch(A, mi.parameters)
    /\ ReturnMatches(R, mi.return_ty)

\* Il2CppClass::find_method_static
FindMethodStatic(c, name, A, R) ==
    LET matching == SelectSeq(Methods(c),
                              LAMBDA mi : FindMethodStaticFilter(mi, name, A, R))
        first == IterNext(matching)
        second == IterNext(IterRest(matching))
    IN  IF first.tag = "Some" /\ second.tag = "None" THEN first
        ELSE IF first.tag = "None" /\ second.tag = "Some" THEN second
        ELSE None

\* Mutant of FindMethodCalleeFilter: the receiver type is not checked.
FindMethodCalleeFilterNoThis(mi, name, T, P, R) ==
    /\ mi.name = name
    /\ ParametersMatch(P, mi.parameters)
    /\ CalleeReturnMatches(R, mi.return_ty)

\* The filter of find_method_callee.
FindMethodCalleeFilter(mi, name, T, P, R) ==
    /\ mi.name = name
    /\ ThisMatches(T, mi)
    /\ ParametersMatch(P, mi.parameters)
    /\ CalleeReturnMatches(R, mi.return_ty)

\* The loop of find_method_callee.
RECURSIVE FindMethodCalleeLoop(_, _, _, _, _)
FindMethodCalleeLoop(h, name, T, P, R) ==
    LET n == HierarchyNext(h) IN
    IF n.item = NoClass THEN None
    ELSE LET matching == SelectSeq(Methods(n.item),
                                   LAMBDA mi : FindMethodCalleeFilter(mi, name, T, P, R))
             first == IterNext(matching)
             second == IterNext(IterRest(matching))
         IN  IF first.tag = "None" THEN FindMethodCalleeLoop(n.iter, name, T, P, R)
             ELSE IF second.tag = "None" THEN first
             ELSE None

\* Il2CppClass::find_method_callee
FindMethodCallee(c, name, T, P, R) == FindMethodCalleeLoop(Hierarchy(c), name, T, P, R)

\* Mutant of FindMethodUncheckedFilter: the parameter count is not checked.
FindMethodUncheckedFilterNameOnly(mi, name, parameters_count) == mi.name = name

\* The filter of find_method_unchecked.
FindMethodUncheckedFilter(mi, name, parameters_count) ==
    mi.name = name /\ Len(mi.parameters) = parameters_count

\* The loop of find_method_unchecked.
RECURSIVE FindMethodUncheckedLoop(_, _, _)
FindMethodUncheckedLoop(h, name, parameters_count) ==
    LET n == HierarchyNext(h) IN
    IF n.item = NoClass THEN None
    ELSE LET matching == SelectSeq(Methods(n.item),
                                   LAMBDA mi : FindMethodUncheckedFilter(mi, name, parameters_count))
             first == IterNext(matching)
             second == IterNext(IterRest(matching))
         IN  IF first.tag = "None" THEN FindMethodUncheckedLoop(n.iter, name, parameters_count)
             ELSE IF second.tag = "None" THEN first
             ELSE None

\* Il2CppClass::find_method_unchecked
FindMethodUnchecked(c, name, parameters_count) ==
    FindMethodUncheckedLoop(Hierarchy(c), name, parameters_count)

----------------------------------------------------------------------------
(* Invocation *)

\* What the managed code may produce: a value, or a thrown exception.
ManagedOutcomes == { [tag |-> "Ok", val |-> <<"value">>],
                     [tag |-> "Err", val |-> <<"exception">>] }

\* Argument tuples of the host signature (i32,).
ArgValues == { <<2>>, <<3>> }

\* MethodInfo::invoke_unchecked: one call of the runtime's invoke primitive
\* on the method with the receiver and the arguments; out is its outcome.
InvokeUnchecked(mi, this, args, out) ==
    [prim |-> "runtime_invoke", target |-> mi.id, this |-> this, args |-> args, out |-> out]

----------------------------------------------------------------------------
(* Host calls: the host signature of every typed lookup is <(i32,), i32>.   *)
(* The lookups are pure functions of the immutable metadata, so a behaviour *)
(* makes one host call on the metadata Init chose.                          *)

HostArgs == <<"i32">>
HostRet == "i32"
ThisTypes == {"unit", "ref"}

Call(op, c, name, T, args) ==
    [op |-> op, class |-> c, name |-> name, this |-> T, args |-> args, field |-> 0]

\* A call on the FieldInfo fi with host type T.
FieldCall(op, fi, T, args) ==
    [op |-> op, class |-> fi.class, name |-> "", this |-> T, args |-> args, field |-> fi.id]

Idle == Call("none", NoClass, "", "", <<>>)

CallFindMethod(c, name) ==
    /\ call = Idle
    /\ call' = Call("find_method", c, name, "", <<>>)
    /\ ret' = FindMethod(c, name, HostArgs, HostRet)
    /\ native' = <<>>
    /\ UNCHANGED <<metadata, object, trav, search>>

CallFindMethodStatic(c, name) ==
    /\ call = Idle
    /\ call' = Call("find_method_static", c, name, "", <<>>)
    /\ ret' = FindMethodStatic(c, name, HostArgs, HostRet)
    /\ native' = <<>>
    /\ UNCHANGED <<metadata, object, trav, search>>

CallFindMethodCallee(c, name, T) ==
    /\ call = Idle
    /\ call' = Call("find_method_callee", c, name, T, <<>>)
    /\ ret' = FindMethodCallee(c, name, T, HostArgs, HostRet)
    /\ native' = <<>>
    /\ UNCHANGED <<metadata, object, trav, search>>

\* The parameter counts an unchecked lookup asks for.
ParameterCounts == {0, 1}

\* The host calls find_method_unchecked: args records the count asked for.
CallFindMethodUnchecked(c, name, parameters_count) ==
    /\ call = Idle
    /\ call' = Call("find_method_unchecked", c, name, "", <<parameters_count>>)
    /\ ret' = FindMethodUnchecked(c, name, parameters_count)
    /\ native' = <<>>
    /\ UNCHANGED <<metadata, object, trav, search>>

\* Mutant of Invoke: the method is resolved by find_method.
InvokeByFindMethod(c, name, args) ==
    LET method == FindMethod(c, name, HostArgs, HostRet) IN
    /\ call = Idle
    /\ call' = Call("invoke", c, name, "", args)
    /\ IF method.tag = "None"
       THEN ret' = Panic /\ native' = <<>>
       ELSE \E out \in ManagedOutcomes :
               /\ native' = <<InvokeUnchecked(method.val[1], "unit", args, out)>>
               /\ ret' = out
    /\ UNCHANGED <<metadata, object, trav, search>>

\* Il2CppClass::invoke: unwrap of the static lookup, then invoke_unchecked.
Invoke(c, name, args) ==
    LET method == FindMethodStatic(c, name, HostArgs, HostRet) IN
    /\ call = Idle
    /\ call' = Call("invoke", c, name, "", args)
    /\ IF method.tag = "None"
       THEN ret' = Panic /\ native' = <<>>
       ELSE \E out \in ManagedOutcomes :
               /\ native' = <<InvokeUnchecked(method.val[1], "unit", args, out)>>
               /\ ret' = out
    /\ UNCHANGED <<metadata, object, trav, search>>

----------------------------------------------------------------------------
(* Hierarchy traversal by the host *)

\* A Hierarchy with nothing left: current is None.
Exhausted == [current |-> NoClass]

NoTraversal ==
    [start |-> NoClass, iter |-> Exhausted, yielded |-> <<>>, ended |-> FALSE]

\* The host calls hierarchy() on a class: a fresh iterator replaces the one
\* it held.
StartHierarchy(c) ==
    /\ call = Idle
    /\ trav' = [start |-> c, iter |-> Hierarchy(c), yielded |-> <<>>, ended |-> FALSE]
    /\ UNCHANGED <<metadata, object, call, ret, native, search>>

\* The host calls next() on the iterator it holds: yielded records the
\* classes it returned, ended that it has returned None.
StepHierarchy ==
    /\ trav.start # NoClass
    /\ Len(trav.yielded) < MaxYield
    /\ LET n == HierarchyNext(trav.iter) IN
       trav' = [trav EXCEPT !.iter = n.iter,
                            !.yielded = IF n.item # NoClass THEN Append(@, n.item) ELSE @,
                            !.ended = @ \/ n.item = NoClass]
    /\ UNCHANGED <<metadata, object, call, ret, native, search>>

----------------------------------------------------------------------------
(* Field resolution *)

\* FieldInfo::name: the name, or the assertion failure on a null pointer.
FieldName(fi) == IF ~fi.name.null THEN Some(fi.name.str) ELSE Panic

\* Mutant of FirstFieldNamed: the unique-match rule of the method lookups.
FirstFieldNamedUnique(items, name) ==
    LET matching == SelectSeq(items, LAMBDA fi : fi.name.str = name) IN
    IF Len(matching) = 1 THEN Some(matching[1]) ELSE None

\* The first item the name filter of find_field_unchecked lets through,
\* reading the name of every field it passes.
RECURSIVE FirstFieldNamed(_, _)
FirstFieldNamed(items, name) ==
    IF items = <<>> THEN None
    ELSE LET n == FieldName(Head(items)) IN
         IF n.tag = "panic" THEN Panic
         ELSE IF n.val[1] = name THEN Some(Head(items))
         ELSE FirstFieldNamed(Tail(items), name)

Pending == [tag |-> "pending", val |-> <<>>]

NoSearch == [iter |-> Exhausted, steps |-> 0]

\* find_field_unchecked is entered: the loop starts on hierarchy().
StartFindField(c, name) ==
    /\ call = Idle
    /\ trav = NoTraversal
    /\ call' = Call("find_field_unchecked", c, name, "", <<>>)
    /\ ret' = Pending
    /\ native' = <<>>
    /\ search' = [iter |-> Hierarchy(c), steps |-> 0]
    /\ UNCHANGED <<metadata, object, trav>>

\* One round of the loop of find_field_unchecked: the next class of the
\* hierarchy, its first field of that name, return or continue.
StepFindField ==
    /\ call.op = "find_field_unchecked"
    /\ ret = Pending
    /\ search.steps < MaxYield
    /\ LET n == HierarchyNext(search.iter)
           matching == FirstFieldNamed(Fields(n.item), call.name)
       IN  IF n.item = NoClass
           THEN ret' = None /\ search' = [search EXCEPT !.iter = n.iter]
           ELSE IF matching.tag = "None"
           THEN ret' = Pending /\ search' = [iter |-> n.iter, steps |-> search.steps + 1]
           ELSE ret' = matching /\ search' = [iter |-> n.iter, steps |-> search.steps + 1]
    /\ UNCHANGED <<metadata, object, call, native, trav>>

----------------------------------------------------------------------------
(* Raw accessors called by the host *)

CallName(c) ==
    /\ call = Idle /\ trav = NoTraversal
    /\ call' = Call("name", c, "", "", <<>>)
    /\ ret' = ClassName(c)
    /\ native' = <<>>
    /\ UNCHANGED <<metadata, object, trav, search>>

CallNamespace(c) ==
    /\ call = Idle /\ trav = NoTraversal
    /\ call' = Call("namespace", c, "", "", <<>>)
    /\ ret' = ClassNamespace(c)
    /\ native' = <<>>
    /\ UNCHANGED <<metadata, object, trav, search>>

CallMethods(c) ==
    /\ call = Idle /\ trav = NoTraversal
    /\ call' = Call("methods", c, "", "", <<>>)
    /\ ret' = Some(Methods(c))
    /\ native' = <<>>
    /\ UNCHANGED <<metadata, object, trav, search>>

CallFields(c) ==
    /\ call = Idle /\ trav = NoTraversal
    /\ call' = Call("fields", c, "", "", <<>>)
    /\ ret' = Some(Fields(c))
    /\ native' = <<>>
    /\ UNCHANGED <<metadata, object, trav, search>>

CallImplementedInterfaces(c) ==
    /\ call = Idle /\ trav = NoTraversal
    /\ call' = Call("implemented_interfaces", c, "", "", <<>>)
    /\ ret' = Some(ImplementedInterfaces(c))
    /\ native' = <<>>
    /\ UNCHANGED <<metadata, object, trav, search>>

CallNestedTypes(c) ==
    /\ call = Idle /\ trav = NoTraversal
    /\ call' = Call("nested_types", c, "", "", <<>>)
    /\ ret' \in NestedTypesOutcomes(c)
    /\ native' = <<>>
    /\ UNCHANGED <<metadata, object, trav, search>>

\* FieldInfo::name on the k-th field record of class c.
CallFieldName(c, k) ==
    /\ call = Idle /\ trav = NoTraversal
    /\ k \in 1..Len(fields[c].items)
    /\ call' = FieldCall("field_name", fields[c].items[k], "", <<>>)
    /\ ret' = FieldName(fields[c].items[k])
    /\ native' = <<>>
    /\ UNCHANGED <<metadata, object, trav, search>>

----------------------------------------------------------------------------
(* Typed field access on the live object *)

HostTypes == {"i32", "bool"}

\* The values of a host type.
HostValues(h) == { [host |-> h, v |-> 1], [host |-> h, v |-> 2] }

\* The value the runtime gives a field of type ty in a fresh object.
DefaultValue(ty) == [host |-> IF ty = "int" THEN "i32" ELSE "bool", v |-> 0]

\* The unit result of a call that returned.
Unit == [tag |-> "unit", val |-> <<>>]

\* FieldInfo::store_unchecked: raw::field_set_value on the object.
StoreUnchecked(fi, val) ==
    /\ native' = <<[prim |-> "field_set_value", target |-> fi.id, this |-> "object",
                    args |-> <<val>>, out |-> Unit]>>
    /\ object' = [object EXCEPT ![fi.id] = val]

\* FieldInfo::load_unchecked: raw::field_get_value_object, then from_object.
LoadUnchecked(fi) ==
    /\ native' = << [prim |-> "field_get_value_object", target |-> fi.id, this |-> "object",
                    args |-> <<>>, out |-> Some(object[fi.id])] >>
    /\ ret' = Some(object[fi.id])
    /\ object' = object

\* FieldInfo::ty
FieldTy(fi) == fi.ty

\* Mutant of Store: the value is stored without the type check.
StoreNoCheck(c, k, A, val) ==
    /\ call = Idle /\ trav = NoTraversal
    /\ k \in 1..Len(fields[c].items)
    /\ LET fi == fields[c].items[k] IN
       /\ call' = FieldCall("store", fi, A, <<val>>)
       /\ StoreUnchecked(fi, val) /\ ret' = Unit
    /\ UNCHANGED <<metadata, trav, search>>

\* FieldInfo::store, on the k-th field record of class c, of a value of
\* host type A.
Store(c, k, A, val) ==
    /\ call = Idle /\ trav = NoTraversal
    /\ k \in 1..Len(fields[c].items)
    /\ LET fi == fields[c].items[k] IN
       /\ call' = FieldCall("store", fi, A, <<val>>)
       /\ IF ~TypeMatches(A, FieldTy(fi))
          THEN ret' = Panic /\ native' = <<>> /\ object' = object
          ELSE StoreUnchecked(fi, val) /\ ret' = Unit
    /\ UNCHANGED <<metadata, trav, search>>

\* FieldInfo::load, on the k-th field record of class c, as host type R.
Load(c, k, R) ==
    /\ call = Idle /\ trav = NoTraversal
    /\ k \in 1..Len(fields[c].items)
    /\ LET fi == fields[c].items[k] IN
       /\ call' = FieldCall("load", fi, R, <<>>)
       /\ IF ~TypeMatches(R, FieldTy(fi))
          THEN ret' = Panic /\ native' = <<>> /\ object' = object
          ELSE LoadUnchecked(fi)
    /\ UNCHANGED <<metadata, trav, search>>

----------------------------------------------------------------------------
(* Specification of method resolution and invocation *)

Init ==
    /\ parent = ChainParent
    /\ \E mc \in [MethodIds -> Classes], mk \in [MethodIds -> MethodKinds] :
          /\ \A i \in MethodIds : i < NumMethods => mc[i] <= mc[i + 1]
          /\ methods = [c \in Classes |-> RawArray(MethodArray(c, mc, mk, 1))]
    /\ fields = EmptyArrays
    /\ raw = ValidRecords
    /\ object = <<>>
    /\ call = Idle
    /\ ret = None
    /\ native = <<>>
    /\ trav = NoTraversal
    /\ search = NoSearch

Next ==
    \/ \E c \in Classes, name \in Names : CallFindMethod(c, name)
    \/ \E c \in Classes, name \in Names : CallFindMethodStatic(c, name)
    \/ \E c \in Classes, name \in Names, T \in ThisTypes : CallFindMethodCallee(c, name, T)
    \/ \E c \in Classes, name \in Names, args \in ArgValues : Invoke(c, name, args)

Spec == Init /\ [][Next]_vars

----------------------------------------------------------------------------
(* Specification of the unchecked method lookup: the method records also   *)
(* differ in their number of parameters.                                    *)

\* The method records of Spec and one that takes no parameter.
UncheckedKinds ==
    MethodKinds \cup
    { [name |-> "Add", is_static |-> FALSE, parameters |-> <<>>, return_ty |-> "int"] }

UncheckedInit ==
    /\ parent = ChainParent
    /\ \E mc \in [MethodIds -> Classes], mk \in [MethodIds -> UncheckedKinds] :
          /\ \A i \in MethodIds : i < NumMethods => mc[i] <= mc[i + 1]
          /\ methods = [c \in Classes |-> RawArray(MethodArray(c, mc, mk, 1))]
    /\ fields = EmptyArrays
    /\ raw = ValidRecords
    /\ object = <<>>
    /\ call = Idle
    /\ ret = None
    /\ native = <<>>
    /\ trav = NoTraversal
    /\ search = NoSearch

UncheckedNext ==
    \E c \in Classes, name \in Names, parameters_count \in ParameterCounts :
        CallFindMethodUnchecked(c, name, parameters_count)

UncheckedSpec == UncheckedInit /\ [][UncheckedNext]_vars

----------------------------------------------------------------------------
(* Specification of hierarchy traversal, field resolution and field access *)

\* The field arrays of well-formed metadata.
FieldArrays ==
    { [c \in Classes |-> RawArray(FieldArray(c, fc, fk, 1))] :
        fc \in {f \in [FieldIds -> Classes] :
                   \A i \in FieldIds : i < NumFields => f[i] <= f[i + 1]},
        fk \in [FieldIds -> FieldKinds] }

\* Every field record of the arrays fa, by id.
FieldRecords(fa) == UNION { {fa[c].items[k] : k \in 1..Len(fa[c].items)} : c \in Classes }

\* A fresh object: every field holds the default value of its type.
FreshObject(fa) ==
    [i \in FieldIds |-> DefaultValue((CHOOSE fi \in FieldRecords(fa) : fi.id = i).ty)]

ViewInitWith(p, fa, rw) ==
    /\ parent = p
    /\ methods = EmptyArrays
    /\ fields = fa
    /\ raw = rw
    /\ object = FreshObject(fa)
    /\ call = Idle
    /\ ret = None
    /\ native = <<>>
    /\ trav = NoTraversal
    /\ search = NoSearch

ViewInit == \E fa \in FieldArrays : ViewInitWith(ChainParent, fa, ValidRecords)

ViewNext ==
    \/ \E c \in Classes : StartHierarchy(c)
    \/ StepHierarchy
    \/ \E c \in Classes, name \in {"x", "y"} : StartFindField(c, name)
    \/ StepFindField
    \/ \E c \in Classes : CallName(c)
    \/ \E c \in Classes : CallNamespace(c)
    \/ \E c \in Classes : CallMethods(c)
    \/ \E c \in Classes : CallFields(c)
    \/ \E c \in Classes : CallImplementedInterfaces(c)
    \/ \E c \in Classes : CallNestedTypes(c)
    \/ \E c \in Classes, k \in FieldIds : CallFieldName(c, k)
    \/ \E c \in Classes, k \in FieldIds, A \in HostTypes :
          \E val \in HostValues(A) : Store(c, k, A, val)
    \/ \E c \in Classes, k \in FieldIds, R \in HostTypes : Load(c, k, R)

ViewSpec == ViewInit /\ [][ViewNext]_vars

\* The same program on malformed metadata: the parent links of the chain run
\* into a cycle, or one pointer is null: of the record of the most derived
\* class, or the name pointer of the first field record.
ChainParentEndingIn(q) == [ChainParent EXCEPT ![NumClasses] = q]

NullArray(a) == [a EXCEPT !.null = TRUE]

\* The class records with one of the pointers of class c null.
RecordsWithNull(c) ==
    { [ValidRecords EXCEPT ![c].name = NullStr],
      [ValidRecords EXCEPT ![c].namespaze = NullStr],
      [ValidRecords EXCEPT ![c].implementedInterfaces = NullArray(@)],
      [ValidRecords EXCEPT ![c].nestedTypes = NullArray(@)] }

MostDerived == CHOOSE c \in Classes : \A d \in Classes : c <= d

\* The field arrays fa with the name pointer of the first field record null.
FieldsWithNullName(fa) ==
    LET c == CHOOSE d \in Classes : fa[d].items # <<>> /\ fa[d].items[1].id = 1
    IN  [fa EXCEPT ![c].items[1].name = NullStr]

MalformedInit ==
    \E fa \in FieldArrays :
        \/ \E q \in Classes \cup {NoClass} :
              ViewInitWith(ChainParentEndingIn(q), fa, ValidRecords)
        \/ \E rw \in RecordsWithNull(MostDerived) : ViewInitWith(ChainParent, fa, rw)
        \/ ViewInitWith(ChainParent, [fa EXCEPT ![MostDerived].null = TRUE], ValidRecords)
        \/ ViewInitWith(ChainParent, FieldsWithNullName(fa), ValidRecords)

MalformedSpec == MalformedInit /\ [][ViewNext]_vars

----------------------------------------------------------------------------
(* Vocabulary of the properties *)

Min(S) == CHOOSE x \in S : \A y \in S : x <= y

\* The class and its ancestors in parent order, at most n of them.
RECURSIVE LineageUpTo(_, _)
LineageUpTo(c, n) ==
    IF c = NoClass \/ n = 0 THEN <<>> ELSE <<c>> \o LineageUpTo(parent[c], n - 1)

Lineage(c) == LineageUpTo(c, NumClasses)

\* The first class of the lineage of c for which Has holds, NoClass if none.
NearestLevel(c, Has(_)) ==
    LET L == Lineage(c)
        I == {i \in 1..Len(L) : Has(L[i])}
    IN  IF I = {} THEN NoClass ELSE L[Min(I)]

\* The method records a class declares itself.
Declared(c) == {methods[c].items[i] : i \in 1..Len(methods[c].items)}

\* The methods of class c that match the name and the host signature.
Candidates(c, name) ==
    {mi \in Declared(c) : /\ mi.name = name
                          /\ ArgumentsMatch(HostArgs, mi.parameters)
                          /\ ReturnMatches(HostRet, mi.return_ty)}

StaticCandidates(c, name) == {mi \in Candidates(c, name) : mi.is_static}

\* The methods of class c whose name, parameters and return type match the
\* callee signature and whose static flag agrees with the receiver type T.
CalleeCandidates(c, name, T) ==
    {mi \in Declared(c) : /\ mi.name = name
                          /\ ParametersMatch(HostArgs, mi.parameters)
                          /\ CalleeReturnMatches(HostRet, mi.return_ty)
                          /\ mi.is_static = (T = "unit")}

\* The methods of class c that would be callee candidates but for the
\* static flag.
CalleeRejected(c, name, T) ==
    {mi \in Declared(c) : /\ mi.name = name
                          /\ ParametersMatch(HostArgs, mi.parameters)
                          /\ CalleeReturnMatches(HostRet, mi.return_ty)
                          /\ mi.is_static # (T = "unit")}

Only(S) == CHOOSE x \in S : TRUE

----------------------------------------------------------------------------
(* C1: find_method returns a method only if, at the first level of the      *)
(* hierarchy (self, then the ancestors in parent order) that declares at    *)
(* least one matching method, exactly one declared method matches, and it   *)
(* is that method; if that level declares two or more the result is None,   *)
(* whatever the ancestors above declare.                                    *)
C1_FindMethodUnique ==
    call.op = "find_method" =>
        LET lvl == NearestLevel(call.class, LAMBDA c : Candidates(c, call.name) # {}) IN
        /\ ret.tag = "Some" =>
              /\ lvl # NoClass
              /\ Cardinality(Candidates(lvl, call.name)) = 1
              /\ ret.val[1] \in Candidates(lvl, call.name)
        /\ (lvl # NoClass /\ Cardinality(Candidates(lvl, call.name)) >= 2) => ret = None

\* find_method gave None at an ambiguous level although a class above that
\* level declares exactly one matching method.
C1_Witness ==
    /\ call.op = "find_method"
    /\ ret = None
    /\ LET lvl == NearestLevel(call.class, LAMBDA c : Candidates(c, call.name) # {}) IN
       /\ lvl # NoClass
       /\ lvl # call.class
       /\ Cardinality(Candidates(lvl, call.name)) >= 2
       /\ parent[lvl] # NoClass
       /\ Cardinality(Candidates(parent[lvl], call.name)) = 1

(* C2: when class C has parent P, P declares exactly one matching method    *)
(* and C declares no method matching both name and signature, find_method   *)
(* on C returns P's method, also when C declares methods of that name with  *)
(* another signature.                                                       *)
C2_ParentMethodFound ==
    (/\ call.op = "find_method"
     /\ parent[call.class] # NoClass
     /\ Candidates(call.class, call.name) = {}
     /\ Cardinality(Candidates(parent[call.class], call.name)) = 1)
    => ret = Some(Only(Candidates(parent[call.class], call.name)))

\* The parent's method was found although the class declares a method of
\* the same name whose signature does not match.
C2_Witness ==
    /\ call.op = "find_method"
    /\ parent[call.class] # NoClass
    /\ Candidates(call.class, call.name) = {}
    /\ \E mi \in Declared(call.class) : mi.name = call.name
    /\ Cardinality(Candidates(parent[call.class], call.name)) = 1
    /\ ret.tag = "Some"
    /\ ret.val[1].class = parent[call.class]

(* C3: find_method_static returns Some(m) exactly when m is the one and     *)
(* only method declared by the queried class itself that has the name, is   *)
(* static and matches the signature; otherwise (none, or two or more) it    *)
(* returns None.  It never returns a non-static method and never one of an  *)
(* ancestor.                                                                *)
C3_FindMethodStaticExact ==
    call.op = "find_method_static" =>
        LET S == StaticCandidates(call.class, call.name) IN
        /\ Cardinality(S) = 1 => ret = Some(Only(S))
        /\ Cardinality(S) # 1 => ret = None
        /\ ret.tag = "Some" => ret.val[1].is_static /\ ret.val[1].class = call.class

\* The static method was returned although the class also declares a
\* non-static method with the same name and signature.
C3_Witness ==
    /\ call.op = "find_method_static"
    /\ ret.tag = "Some"
    /\ \E mi \in Candidates(call.class, call.name) : ~mi.is_static

(* C4: find_method_callee never returns a method whose static flag          *)
(* disagrees with the receiver type T (for T = () a non-static method, for  *)
(* a reference a static one): such a method is no candidate at any level,   *)
(* so it is neither returned nor counted toward ambiguity, and the result   *)
(* is decided by the agreeing candidates alone.                             *)
C4_CalleeThisGating ==
    call.op = "find_method_callee" =>
        LET T == call.this
            lvl == NearestLevel(call.class,
                                LAMBDA c : CalleeCandidates(c, call.name, T) # {})
        IN
        /\ ret.tag = "Some" => ret.val[1].is_static = (T = "unit")
        /\ ret = IF lvl # NoClass /\ Cardinality(CalleeCandidates(lvl, call.name, T)) = 1
                 THEN Some(Only(CalleeCandidates(lvl, call.name, T)))
                 ELSE None

\* With T = () a static method was returned from a level that also declares
\* a non-static method matching in name, parameters and return type.
C4_Witness ==
    /\ call.op = "find_method_callee"
    /\ call.this = "unit"
    /\ ret.tag = "Some"
    /\ CalleeRejected(ret.val[1].class, call.name, "unit") # {}

(* C5: invoke resolves by the static search of the class; when that does    *)
(* not give a unique method it panics and the native invoke primitive is    *)
(* not called; otherwise the primitive is called once, on the resolved      *)
(* static method, with no receiver and the given arguments, and its Ok/Err  *)
(* outcome is returned unchanged.  A resolution failure is never an Err.    *)
C5_InvokeResolvesOrPanics ==
    call.op = "invoke" =>
        LET S == StaticCandidates(call.class, call.name) IN
        IF Cardinality(S) # 1
        THEN ret = Panic /\ native = <<>>
        ELSE /\ Len(native) = 1
             /\ native[1].prim = "runtime_invoke"
             /\ native[1].target = Only(S).id
             /\ native[1].this = "unit"
             /\ native[1].args = call.args
             /\ ret = native[1].out
             /\ ret.tag \in {"Ok", "Err"}

\* invoke panicked without reaching the primitive although the parent class
\* declares a unique matching static method.
C5_Witness ==
    /\ call.op = "invoke"
    /\ ret = Panic
    /\ native = <<>>
    /\ parent[call.class] # NoClass
    /\ Cardinality(StaticCandidates(parent[call.class], call.name)) = 1

\* The methods of class c that have the name and take n parameters, whatever
\* their parameter types, return type and static flag.
UncheckedCandidates(c, name, n) ==
    {mi \in Declared(c) : mi.name = name /\ Len(mi.parameters) = n}

\* The parameter count an unchecked lookup was called with.
CalledCount == call.args[1]

(* C11: find_method_unchecked selects by name and parameter count only      *)
(* (parameter types, return type and static flag have no part in the        *)
(* result) and decides level by level like the typed search: at the first   *)
(* level of the hierarchy that declares a method of that name and count it  *)
(* returns that method if it is the only one there and None if there are    *)
(* two or more; it goes on to the parent only from a level that has none,   *)
(* and returns None when no level has one.                                  *)
C11_FindMethodUncheckedByNameAndCount ==
    call.op = "find_method_unchecked" =>
        LET lvl == NearestLevel(call.class,
                                LAMBDA c : UncheckedCandidates(c, call.name, CalledCount) # {})
        IN
        /\ ret.tag = "Some" =>
              /\ ret.val[1].name = call.name
              /\ Len(ret.val[1].parameters) = CalledCount
              /\ ret.val[1].class = lvl
        /\ ret = IF /\ lvl # NoClass
                    /\ Cardinality(UncheckedCandidates(lvl, call.name, CalledCount)) = 1
                 THEN Some(Only(UncheckedCandidates(lvl, call.name, CalledCount)))
                 ELSE None

\* The lookup passed over the queried class, which declares the name only
\* with another parameter count, and gave None at an ancestor that declares
\* two methods of that name and count differing in parameter type, return
\* type and static flag.
C11_Witness ==
    /\ call.op = "find_method_unchecked"
    /\ ret = None
    /\ UncheckedCandidates(call.class, call.name, CalledCount) = {}
    /\ \E mi \in Declared(call.class) :
          mi.name = call.name /\ Len(mi.parameters) # CalledCount
    /\ LET lvl == NearestLevel(call.class,
                               LAMBDA c : UncheckedCandidates(c, call.name, CalledCount) # {})
       IN  /\ lvl # NoClass
           /\ \E m1, m2 \in UncheckedCandidates(lvl, call.name, CalledCount) :
                 /\ m1.is_static # m2.is_static
                 /\ m1.parameters # m2.parameters
                 /\ m1.return_ty # m2.return_ty

----------------------------------------------------------------------------
(* Vocabulary of the hierarchy properties *)

\* The parent chain of c ends: it reaches the null parent within NumClasses
\* classes.
Acyclic(c) == Len(LineageUpTo(c, NumClasses + 1)) <= NumClasses

\* The positions, in declaration order, of the fields of class c named name.
FieldsNamed(c, name) ==
    {i \in 1..Len(fields[c].items) : fields[c].items[i].name.str = name}

(* C7: for a class whose parent chain is acyclic with depth D, the iterator *)
(* of hierarchy() yields exactly the D+1 classes of the chain, the class    *)
(* itself first and then each ancestor in parent order, and only then       *)
(* returns None, and keeps returning None; every hierarchy() call starts    *)
(* again from the class it is called on.                                    *)
C7_HierarchyYieldsLineage ==
    (trav.start # NoClass /\ Acyclic(trav.start)) =>
        LET L == Lineage(trav.start) IN
        /\ Len(trav.yielded) <= Len(L)
        /\ trav.yielded = SubSeq(L, 1, Len(trav.yielded))
        /\ trav.ended => trav.yielded = L /\ HierarchyNext(trav.iter).iter = trav.iter
        /\ Len(trav.yielded) = Len(L) => HierarchyNext(trav.iter).item = NoClass

\* A traversal started on the most derived class yielded the whole chain
\* and then None.
C7_Witness ==
    /\ trav.start # NoClass
    /\ Len(Lineage(trav.start)) = NumClasses
    /\ trav.yielded = Lineage(trav.start)
    /\ trav.ended

(* C8 as stated: hierarchy traversal, and with it every search that walks   *)
(* the hierarchy, ends even when the parent links form a cycle.  The next   *)
(* class is a function of the current one, so a traversal that ends visits  *)
(* no class twice: it yields, and a search examines, at most NumClasses     *)
(* classes.                                                                 *)
C8_TraversalEndsOnAnyLinks ==
    /\ Len(trav.yielded) <= NumClasses
    /\ search.steps <= NumClasses

(* C8 amended: traversal and search end when the parent chain of the start  *)
(* class is acyclic, after at most depth+1 classes.  On a chain that runs   *)
(* into a cycle the iterator never returns None, and find_field_unchecked   *)
(* never returns None: it returns only if a class of the chain declares the *)
(* name and otherwise keeps looping.                                        *)
C8_EndsIffAcyclic ==
    /\ trav.start # NoClass =>
          IF Acyclic(trav.start)
          THEN Len(trav.yielded) <= Len(Lineage(trav.start))
          ELSE ~trav.ended /\ HierarchyNext(trav.iter).item # NoClass
    /\ call.op = "find_field_unchecked" =>
          IF Acyclic(call.class)
          THEN search.steps <= Len(Lineage(call.class))
          ELSE /\ ret # None
               /\ (\A i \in 1..Len(Lineage(call.class)) :
                      FieldsNamed(Lineage(call.class)[i], call.name) = {}) => ret = Pending

\* On cyclic parent links a traversal has come round to a class it had
\* already yielded.
C8_Witness ==
    /\ trav.start # NoClass
    /\ ~Acyclic(trav.start)
    /\ Len(trav.yielded) > NumClasses
    /\ ~trav.ended

(* C10: find_field_unchecked returns the first field, in declaration order, *)
(* with the given name at the nearest level of the hierarchy (self, then    *)
(* the ancestors in parent order) that declares a field of that name;       *)
(* several such fields at that level are no failure; the result is None     *)
(* only if no class of the hierarchy declares a field of that name.         *)
C10_FindFieldNearestFirst ==
    (call.op = "find_field_unchecked" /\ ret # Pending) =>
        LET lvl == NearestLevel(call.class, LAMBDA c : FieldsNamed(c, call.name) # {}) IN
        IF lvl = NoClass
        THEN ret = None
        ELSE ret = Some(fields[lvl].items[Min(FieldsNamed(lvl, call.name))])

\* The field was found at an ancestor that declares two fields of the name.
C10_Witness ==
    /\ call.op = "find_field_unchecked"
    /\ ret.tag = "Some"
    /\ ret.val[1].class # call.class
    /\ Cardinality(FieldsNamed(ret.val[1].class, call.name)) >= 2

----------------------------------------------------------------------------
(* Vocabulary of the field access and accessor properties *)

\* The field record a store or load was called on.
CalledField == CHOOSE fi \in FieldRecords(fields) : fi.id = call.field

(* C6: store and load check the host type's matches predicate against the  *)
(* type of the field before they delegate.  When the predicate rejects the  *)
(* type the call aborts on the assertion, the raw set/get primitive is not  *)
(* called and the object's field values are as they were; the primitive is  *)
(* reached, once and on that field, only when the check has passed.         *)
C6_FieldAccessChecked ==
    call.op \in {"store", "load"} =>
        LET fi == CalledField IN
        IF ~TypeMatches(call.this, fi.ty)
        THEN /\ ret = Panic
             /\ native = <<>>
             /\ object = FreshObject(fields)
        ELSE /\ Len(native) = 1
             /\ native[1].target = fi.id
             /\ call.op = "store" =>
                   /\ native[1].prim = "field_set_value"
                   /\ native[1].args = call.args
                   /\ object = [FreshObject(fields) EXCEPT ![fi.id] = call.args[1]]
             /\ call.op = "load" =>
                   /\ native[1].prim = "field_get_value_object"
                   /\ object = FreshObject(fields)

\* A store of a value whose host type the field's type rejects aborted and
\* left the object alone.
C6_Witness ==
    /\ call.op = "store"
    /\ ~TypeMatches(call.this, CalledField.ty)
    /\ ret = Panic
    /\ native = <<>>
    /\ object[call.field] # call.args[1]

\* The pointer an accessor call read is null.
ReadNullName ==
    \/ call.op = "name" /\ raw[call.class].name.null
    \/ call.op = "namespace" /\ raw[call.class].namespaze.null
    \/ call.op = "field_name" /\ CalledField.name.null

ReadNullArray ==
    \/ call.op = "methods" /\ methods[call.class].null
    \/ call.op = "fields" /\ fields[call.class].null
    \/ call.op = "implemented_interfaces" /\ raw[call.class].implementedInterfaces.null

ReadNullNestedTypes == call.op = "nested_types" /\ raw[call.class].nestedTypes.null

(* C9 as stated: whenever a name pointer (class name, class namespace,      *)
(* field name) or a member-array pointer (methods, fields, implemented      *)
(* interfaces, nested types) is null, the accessor aborts instead of        *)
(* returning a value.                                                       *)
C9_NullPointerAborts ==
    (ReadNullName \/ ReadNullArray \/ ReadNullNestedTypes) => ret = Panic

(* C9 amended: a null name pointer (class name, class namespace, field      *)
(* name) makes the accessor abort on its assertion.  A null methods, fields *)
(* or implemented-interfaces pointer does not: the accessor returns the     *)
(* empty slice.  (nested_types checks nothing and builds the slice from the *)
(* null pointer: no outcome is guaranteed for it.)                          *)
C9_NullNameAbortsNullArrayEmpty ==
    /\ ReadNullName => ret = Panic
    /\ ReadNullArray => ret = Some(<<>>)

\* The name accessor aborted on the null name pointer of a class.
C9_Witness ==
    /\ call.op = "name"
    /\ raw[call.class].name.null
    /\ ret = Panic

====
